---- MODULE Spec2Model ----
(***************************************************************************)
(* A model of the distance-based solver of Cassiopeia                      *)
(* (cassiopeia/solver/DistanceSolver.py) and of the tree utilities it is   *)
(* used with (cassiopeia/solver/solver_utilities.py).                      *)
(*                                                                         *)
(* Spec        : DistanceSolver.solve on a CassiopeiaTree handle.          *)
(* SpecLive    : Spec with the steps of a running solve taken fairly.      *)
(* SpecAppend  : DistanceSolver.__append_sample_names on a rooted tree.    *)
(* SpecCollapse: solver_utilities.collapse_tree on a rooted tree.          *)
(* SpecWalk    : annotate_ancestral_characters, call by call.              *)
(* SpecUnifurcations: BirthDeathFitnessSimulator.collapse_unifurcations.   *)
(* SpecPasses  : either collapsing pass.                                   *)
(* SpecEte     : solver_utilities.collapse_unifurcations on an ete3 tree.  *)
(* SpecDepth   : the mean and maximum depth of a tree.                     *)
(***************************************************************************)
EXTENDS Integers, Sequences, FiniteSets, TLC

VARIABLES
    \* ---- the CassiopeiaTree handle ----
    root_sample_name,     \* <<>> for None, <<name>> otherwise
    character_matrix,     \* [index |-> names, values |-> state vectors]
    dissimilarity_map,    \* <<>> for None, <<[index, columns]>> otherwise
    handle_tree,          \* <<>> before populate_tree, <<graph>> afterwards
    \* ---- the solver object ----
    dissimilarity_function, \* TRUE iff a dissimilarity function was given
    add_root,
    \* ---- locals of one solve call ----
    pc,
    N,
    identifier_to_sample, \* sequence: position p holds the value of key str(p-1)
    working_map,          \* _dissimilarity_map
    tree,
    \* ---- history of the call ----
    pre,                  \* per solve call: the handle as it was at the call
    outcomes,             \* per finished solve call: "ok" or the exception raised
    root_call,            \* <<>> or <<[tree, root_sample]>>: arguments of root_tree
    steps,                \* [compute, cherry, update, populate]: calls made by this solve
    \* ---- __append_sample_names ----
    solution,             \* the graph it is given and returns
    state_to_sample_mapping,
    append_pc,
    append_pre,           \* the solution as it was given
    \* ---- solver_utilities.collapse_tree ----
    collapse_T,           \* the tree (a DiGraph) it is given and works on
    node_characters,      \* the "characters" attribute of the nodes that have one
    infer_ancestral_characters,
    leaf_matrix,          \* character_matrix: <<>> for None, <<leaf -> vector>>
    missing_char,         \* <<>> for None, <<symbol>> otherwise
    node_to_characters,
    collapse_pc,
    collapse_pre,         \* [tree, characters] as they were given
    collapse_first,       \* <<>>, or <<[given, returned]>>: the trees of the first of two calls
    \* ---- BirthDeathFitnessSimulator.collapse_unifurcations ----
    unif_tree,            \* the tree (a DiGraph with edge weights) it works on
    unif_source,          \* the argument source: <<>> for None, <<node>> otherwise
    unif_visited,         \* the nodes the loop of line 304 has been through
    unif_pc,
    unif_pre,             \* the tree as it was given
    \* ---- CassiopeiaTree.get_mean_depth_of_tree, get_max_depth_of_tree ----
    depth_tree,           \* the tree of the CassiopeiaTree, unit branch lengths
    mean_depth,           \* <<>> before the call, <<[total, leaves]>> afterwards
    max_depth,            \* <<>> before the call, <<depth>> afterwards
    \* ---- annotate_ancestral_characters, call by call ----
    walk_T,               \* the tree T
    walk_missing,         \* missing_char
    walk_characters,      \* node_to_characters (and the "characters" attributes)
    walk_stack,           \* the calls in progress, the outermost first
    walk_calls,           \* per node: the calls made on it so far
    walk_assigned,        \* per node: the assignments of line 53 made to it so far
    \* ---- solver_utilities.collapse_unifurcations (ete3) ----
    ete_tree,             \* the argument tree
    collapsed_tree,       \* the copy the function works on and returns
    ete_to_collapse,      \* to_collapse: the nodes of the list of line 166 not yet deleted
    ete_pc

solveVars == <<root_sample_name, character_matrix, dissimilarity_map, handle_tree,
               dissimilarity_function, add_root, pc, N, identifier_to_sample,
               working_map, tree, pre, outcomes, root_call, steps>>

appendVars == <<solution, state_to_sample_mapping, append_pc, append_pre>>

collapseVars == <<collapse_T, node_characters, infer_ancestral_characters, leaf_matrix,
                  missing_char, node_to_characters, collapse_pc, collapse_pre,
                  collapse_first>>

unifVars == <<unif_tree, unif_source, unif_visited, unif_pc, unif_pre>>

depthVars == <<depth_tree, mean_depth, max_depth>>

\* The state of the remaining tree utilities.
walkVars == <<walk_T, walk_missing, walk_characters, walk_stack, walk_calls, walk_assigned>>

eteVars == <<ete_tree, collapsed_tree, ete_to_collapse, ete_pc>>

utilityVars == <<depthVars, walkVars, eteVars>>

vars == <<solveVars, appendVars, collapseVars, unifVars, utilityVars>>

\* What the actions of solve leave alone.
notSolve == <<appendVars, collapseVars, unifVars, utilityVars>>

handle == <<root_sample_name, character_matrix, dissimilarity_map, handle_tree>>
solver == <<dissimilarity_function, add_root>>
locals == <<N, identifier_to_sample, working_map, tree>>
history == <<pre, outcomes, root_call, steps>>

(***************************************************************************)
(* Bounds                                                                  *)
(***************************************************************************)
MaxN == 3          \* samples in the character matrix of the handle
NumChars == 1      \* characters (sites) per sample
MaxCalls == 2      \* solve calls on one handle (a call after a failed call)
MaxNodes == 5      \* nodes of a rooted tree given to a tree utility

(***************************************************************************)
(* Values                                                                  *)
(***************************************************************************)
Digits == <<"0", "1", "2", "3", "4", "5", "6", "7", "8", "9">>

RECURSIVE str(_)
\* Python's str() of a non-negative int: its decimal digits.
str(n) == IF n < 10 THEN Digits[n + 1]
          ELSE str(n \div 10) \o Digits[(n % 10) + 1]

\* Sample labels: a plain name and names that are decimal strings, two of
\* them keys of identifier_to_sample and one the first name a merge makes.
Labels == {"a", str(0), str(1), str(MaxN)}

Range(s) == {s[k] : k \in DOMAIN s}

IsInjective(s) == \A p, q \in DOMAIN s : s[p] = s[q] => p = q

\* nx.Graph()
EmptyGraph == [nodes |-> {}, edges |-> {}, directed |-> FALSE]

\* networkx keeps an undirected edge in both adjacency lists: u-v is held as
\* <<u, v>> and <<v, u>>, a self-loop as <<u, u>>.
add_node(G, n) == [G EXCEPT !.nodes = @ \cup {n}]

add_nodes_from(G, ns) == [G EXCEPT !.nodes = @ \cup ns]

add_edge(G, u, v) ==
    [G EXCEPT !.nodes = @ \cup {u, v}, !.edges = @ \cup {<<u, v>>, <<v, u>>}]

out_degree(G, n) == Cardinality({e \in G.edges : e[1] = n})

in_degree(G, n) == Cardinality({e \in G.edges : e[2] = n})

successors(G, n) == {e[2] : e \in {f \in G.edges : f[1] = n}}

\* Graph.degree: neighbours, a self-loop counted twice; DiGraph.degree: in-degree
\* plus out-degree.
degree(G, n) ==
    IF G.directed
    THEN in_degree(G, n) + out_degree(G, n)
    ELSE out_degree(G, n) + (IF <<n, n>> \in G.edges THEN 1 ELSE 0)

number_of_edges(G) ==
    (Cardinality(G.edges) + Cardinality({e \in G.edges : e[1] = e[2]})) \div 2

\* dict.get(n, n) on identifier_to_sample, whose keys are str(0) .. str(N-1).
mapping_get(mapping, n) ==
    IF \E p \in DOMAIN mapping : str(p - 1) = n
    THEN mapping[CHOOSE p \in DOMAIN mapping : str(p - 1) = n]
    ELSE n

\* nx.relabel_nodes(tree, mapping) with copy=True: every node and every edge
\* end is sent through mapping.get(n, n) into a new graph.
relabel_nodes(G, mapping) ==
    [nodes |-> {mapping_get(mapping, n) : n \in G.nodes},
     edges |-> {<<mapping_get(mapping, e[1]), mapping_get(mapping, e[2])>> : e \in G.edges},
     directed |-> G.directed]

\* str(len(tree.nodes))
new_node_name(G) == str(Cardinality(G.nodes))

\* character_matrix.shape[1]
shape1(cm) == IF Len(cm.values) = 0 THEN 0 ELSE Len(cm.values[1])

\* character_matrix.loc[name] = row: overwrite the row of that name, or append.
loc_set(cm, name, row) ==
    IF \E p \in DOMAIN cm.index : cm.index[p] = name
    THEN [cm EXCEPT !.values =
            [p \in DOMAIN cm.values |-> IF cm.index[p] = name THEN row ELSE @[p]]]
    ELSE [index |-> Append(cm.index, name), values |-> Append(cm.values, row)]

\* CassiopeiaTree.compute_dissimilarity_map: an N x N table over the samples
\* of the handle's character matrix. Its entries are read only by the
\* pluggable rules, so the table is held by its row and column labels.
compute_dissimilarity_map(cm) == [index |-> cm.index, columns |-> cm.index]

(***************************************************************************)
(* The pluggable rules (abstract methods of DistanceSolver)                *)
(***************************************************************************)
\* find_cherry: any two distinct positions of the matrix it is given.
find_cherry(m) ==
    {c \in (0..(Len(m.index) - 1)) \X (0..(Len(m.index) - 1)) : c[1] # c[2]}

RemoveFirst(s, x) ==
    IF \E p \in DOMAIN s : s[p] = x
    THEN LET q == CHOOSE p \in DOMAIN s : s[p] = x /\ \A r \in 1..(p - 1) : s[r] # x
         IN  SubSeq(s, 1, q - 1) \o SubSeq(s, q + 1, Len(s))
    ELSE s

\* update_dissimilarity_map: the rows and columns of the cherry are dropped
\* and a row and a column for the new node are added.
update_dissimilarity_map(m, cherry, new_node) ==
    [index   |-> Append(RemoveFirst(RemoveFirst(m.index, cherry[1]), cherry[2]), new_node),
     columns |-> Append(RemoveFirst(RemoveFirst(m.columns, cherry[1]), cherry[2]), new_node)]

RECURSIVE Within(_, _, _)
\* The nodes at most k edges away from the nodes of S.
Within(G, S, k) ==
    IF k = 0 THEN S
    ELSE LET W == Within(G, S, k - 1)
         IN  W \cup {e[2] : e \in {f \in G.edges : f[1] \in W}}

Reachable(G, r) == Within(G, {r}, Cardinality(G.nodes))

\* Number of edges on a shortest path from r to n (n reachable from r).
Dist(G, r, n) ==
    CHOOSE k \in 0..Cardinality(G.nodes) :
        /\ n \in Within(G, {r}, k)
        /\ \A j \in 0..(k - 1) : n \notin Within(G, {r}, j)

\* root_tree: a directed graph over what a traversal from root_sample meets,
\* every edge pointing away from root_sample.
root_tree(G, root_sample) ==
    [nodes    |-> Reachable(G, root_sample),
     edges    |-> {e \in G.edges :
                     /\ e[1] \in Reachable(G, root_sample)
                     /\ Dist(G, root_sample, e[2]) = Dist(G, root_sample, e[1]) + 1},
     directed |-> TRUE]

(***************************************************************************)
(* DistanceSolver.setup_dissimilarity_map                                  *)
(***************************************************************************)
\* line 159: the implicit root is wanted
setup_adds_root == root_sample_name = <<>> /\ add_root

\* line 160
implicit_root_row == [k \in 1..shape1(character_matrix) |-> 0]

\* lines 152-163: the handle's character matrix when setup ends
setup_character_matrix ==
    IF setup_adds_root
    THEN loc_set(character_matrix, "root", implicit_root_row)
    ELSE character_matrix

\* lines 159-162: the handle's root sample name when setup ends
setup_root_sample_name ==
    IF setup_adds_root THEN <<"root">> ELSE root_sample_name

\* setup_raises without the check of lines 165-169: the function is looked
\* for only when the handle has no dissimilarity map.
setup_raises_map_only == dissimilarity_map = <<>> /\ ~dissimilarity_function

\* lines 165-169 and 175-180: setup raises DistanceSolverError
setup_raises ==
    \/ setup_adds_root /\ ~dissimilarity_function
    \/ ~setup_adds_root /\ dissimilarity_map = <<>> /\ ~dissimilarity_function

\* setup_map without lines 171-173: a map is computed only when the handle
\* has none, so a precomputed map stays as it is when the root row is added
setup_map_precomputed_kept ==
    IF dissimilarity_map = <<>> /\ dissimilarity_function
    THEN <<compute_dissimilarity_map(setup_character_matrix)>>
    ELSE dissimilarity_map

\* lines 171-173 and 175-184: the handle's dissimilarity map when setup ends
setup_map ==
    IF setup_adds_root
    THEN IF dissimilarity_function
         THEN <<compute_dissimilarity_map(setup_character_matrix)>>
         ELSE dissimilarity_map
    ELSE IF dissimilarity_map = <<>> /\ dissimilarity_function
         THEN <<compute_dissimilarity_map(character_matrix)>>
         ELSE dissimilarity_map

Snapshot ==
    [root_sample_name |-> root_sample_name, character_matrix |-> character_matrix,
     dissimilarity_map |-> dissimilarity_map, tree |-> handle_tree]

\* lines 171-173 and 182-184: the calls of compute_dissimilarity_map setup
\* makes; the test of line 175 reads the map the first call has stored
setup_computes ==
    LET map_at_175 == IF setup_adds_root /\ dissimilarity_function
                      THEN <<compute_dissimilarity_map(setup_character_matrix)>>
                      ELSE dissimilarity_map
    IN  (IF setup_adds_root /\ dissimilarity_function THEN 1 ELSE 0)
        + (IF ~(setup_adds_root /\ ~dissimilarity_function)
              /\ map_at_175 = <<>> /\ dissimilarity_function THEN 1 ELSE 0)

NoSteps == [compute |-> 0, cherry |-> 0, update |-> 0, populate |-> 0]

(***************************************************************************)
(* Initial states: a handle over 2..MaxN samples and a solver              *)
(***************************************************************************)
Vector(b) == [k \in 1..NumChars |-> b]

\* State vectors of n samples: all samples alike, or the first one apart.
Profiles(n) == {[p \in 1..n |-> Vector(IF p <= k THEN 1 ELSE 0)] : k \in 0..1}

Indexes == {s \in UNION {[1..n -> Labels] : n \in 2..MaxN} : IsInjective(s)}

InitLocals ==
    /\ pc = "idle"
    /\ N = 0
    /\ identifier_to_sample = <<>>
    /\ working_map = [index |-> <<>>, columns |-> <<>>]
    /\ tree = EmptyGraph
    /\ root_call = <<>>
    /\ steps = NoSteps

\* __append_sample_names is not running.
AppendIdle ==
    /\ solution = EmptyGraph
    /\ state_to_sample_mapping = <<>>
    /\ append_pc = "idle"
    /\ append_pre = EmptyGraph

\* collapse_tree is not running.
CollapseIdle ==
    /\ collapse_T = EmptyGraph
    /\ node_characters = <<>>
    /\ infer_ancestral_characters = FALSE
    /\ leaf_matrix = <<>>
    /\ missing_char = <<>>
    /\ node_to_characters = <<>>
    /\ collapse_pc = "idle"
    /\ collapse_pre = <<>>
    /\ collapse_first = <<>>

\* nx.DiGraph() with a weight on every edge
EmptyWeighted == [nodes |-> {}, edges |-> {}, weight |-> <<>>, directed |-> TRUE]

\* collapse_unifurcations is not running.
UnifurcationsIdle ==
    /\ unif_tree = EmptyWeighted
    /\ unif_source = <<>>
    /\ unif_visited = {}
    /\ unif_pc = "idle"
    /\ unif_pre = EmptyWeighted

\* No depth of a tree is being asked for.
DepthIdle ==
    /\ depth_tree = EmptyGraph
    /\ mean_depth = <<>>
    /\ max_depth = <<>>

\* annotate_ancestral_characters is not being followed call by call.
WalkIdle ==
    /\ walk_T = EmptyGraph
    /\ walk_missing = 0
    /\ walk_characters = <<>>
    /\ walk_stack = <<>>
    /\ walk_calls = <<>>
    /\ walk_assigned = <<>>

\* solver_utilities.collapse_unifurcations is not running.
EteIdle ==
    /\ ete_tree = EmptyGraph
    /\ collapsed_tree = EmptyGraph
    /\ ete_to_collapse = {}
    /\ ete_pc = "idle"

\* None of the remaining tree utilities is running.
UtilitiesIdle == DepthIdle /\ WalkIdle /\ EteIdle

Init ==
    /\ \E idx \in Indexes : \E vals \in Profiles(Len(idx)) :
          character_matrix = [index |-> idx, values |-> vals]
    /\ root_sample_name \in {<<>>, <<character_matrix.index[1]>>}
    /\ dissimilarity_map \in {<<>>, <<compute_dissimilarity_map(character_matrix)>>}
    /\ handle_tree = <<>>
    /\ dissimilarity_function \in BOOLEAN
    /\ add_root \in BOOLEAN
    /\ InitLocals
    /\ pre = <<>>
    /\ outcomes = <<>>
    /\ AppendIdle
    /\ CollapseIdle
    /\ UnifurcationsIdle
    /\ UtilitiesIdle

(***************************************************************************)
(* DistanceSolver.solve, one action per stretch of the method              *)
(***************************************************************************)
\* lines 84, 152-169/175-180: setup raises; what it assigned before stays
SolveRaises ==
    /\ pc = "idle"
    /\ Len(pre) < MaxCalls
    /\ setup_raises
    /\ pre' = Append(pre, Snapshot)
    /\ root_sample_name' = setup_root_sample_name
    /\ character_matrix' = setup_character_matrix
    /\ dissimilarity_map' = setup_map
    /\ outcomes' = Append(outcomes, "DistanceSolverError")
    /\ pc' = "raised"
    /\ steps' = [steps EXCEPT !.compute = setup_computes]
    /\ UNCHANGED <<handle_tree, solver, locals, root_call>>
    /\ UNCHANGED notSolve

\* lines 84-100: setup returns, the working matrix and the tree are made
SolveBegins ==
    /\ pc = "idle"
    /\ Len(pre) < MaxCalls
    /\ ~setup_raises
    /\ pre' = Append(pre, Snapshot)
    /\ root_sample_name' = setup_root_sample_name
    /\ character_matrix' = setup_character_matrix
    /\ dissimilarity_map' = setup_map
    /\ N' = Len(setup_map[1].index)
    /\ identifier_to_sample' = setup_map[1].index
    /\ working_map' = setup_map[1]
    /\ tree' = add_nodes_from(EmptyGraph, Range(setup_map[1].index))
    /\ pc' = "loop"
    /\ steps' = [steps EXCEPT !.compute = setup_computes]
    /\ UNCHANGED <<handle_tree, solver, outcomes, root_call>>
    /\ UNCHANGED notSolve

\* lines 102-122: one iteration of the merge loop
Merge ==
    /\ pc = "loop"
    /\ N > 2
    /\ \E c \in find_cherry(working_map) :
          LET node_i == working_map.index[c[1] + 1]
              node_j == working_map.index[c[2] + 1]
              new == new_node_name(tree)
              m == update_dissimilarity_map(working_map, <<node_i, node_j>>, new)
          IN  /\ tree' = add_edge(add_edge(add_node(tree, new), new, node_i), new, node_j)
              /\ working_map' = m
              /\ N' = Len(m.index)
    /\ steps' = [steps EXCEPT !.cherry = @ + 1, !.update = @ + 1]
    /\ UNCHANGED <<handle, solver, pc, identifier_to_sample, pre, outcomes, root_call>>
    /\ UNCHANGED notSolve

\* FinalJoin with "while N > 3" as the loop test of line 102: the loop is
\* left with three rows in the matrix
FinalJoinEarly ==
    /\ pc = "loop"
    /\ ~(N > 3)
    /\ Len(working_map.index) >= 2
    /\ tree' = add_edge(tree, working_map.index[1], working_map.index[2])
    /\ pc' = "relabel"
    /\ UNCHANGED <<handle, solver, N, identifier_to_sample, working_map, history>>
    /\ UNCHANGED notSolve

\* lines 102, 124-125: the loop is left and the two remaining nodes are joined
\* (remaining_samples[1] needs two rows; the matrix never has fewer here)
FinalJoin ==
    /\ pc = "loop"
    /\ ~(N > 2)
    /\ Len(working_map.index) >= 2
    /\ tree' = add_edge(tree, working_map.index[1], working_map.index[2])
    /\ pc' = "relabel"
    /\ UNCHANGED <<handle, solver, N, identifier_to_sample, working_map, history>>
    /\ UNCHANGED notSolve

\* lines 127-129
Relabel ==
    /\ pc = "relabel"
    /\ tree' = relabel_nodes(tree, identifier_to_sample)
    /\ pc' = IF root_sample_name # <<>> THEN "root" ELSE "populate"
    /\ UNCHANGED <<handle, solver, N, identifier_to_sample, working_map, history>>
    /\ UNCHANGED notSolve

\* line 130
RootTree ==
    /\ pc = "root"
    /\ root_sample_name[1] \in tree.nodes
    /\ root_call' = <<[tree |-> tree, root_sample |-> root_sample_name[1]]>>
    /\ tree' = root_tree(tree, root_sample_name[1])
    /\ pc' = "populate"
    /\ UNCHANGED <<handle, solver, N, identifier_to_sample, working_map, pre, outcomes, steps>>
    /\ UNCHANGED notSolve

\* line 130: a traversal from a node the tree does not have raises
RootTreeRaises ==
    /\ pc = "root"
    /\ root_sample_name[1] \notin tree.nodes
    /\ root_call' = <<[tree |-> tree, root_sample |-> root_sample_name[1]]>>
    /\ outcomes' = Append(outcomes, "KeyError")
    /\ pc' = "raised"
    /\ UNCHANGED <<handle, solver, locals, pre, steps>>
    /\ UNCHANGED notSolve

\* line 132
Populate ==
    /\ pc = "populate"
    /\ handle_tree' = <<tree>>
    /\ steps' = [steps EXCEPT !.populate = @ + 1]
    /\ outcomes' = Append(outcomes, "ok")
    /\ pc' = "done"
    /\ UNCHANGED <<root_sample_name, character_matrix, dissimilarity_map, solver,
                   locals, pre, root_call>>
    /\ UNCHANGED notSolve

\* solve has raised and the caller is about to call it again on the same
\* handle: the locals of the failed call are gone
Return ==
    /\ pc = "raised"
    /\ Len(pre) < MaxCalls
    /\ pc' = "idle"
    /\ N' = 0
    /\ identifier_to_sample' = <<>>
    /\ working_map' = [index |-> <<>>, columns |-> <<>>]
    /\ tree' = EmptyGraph
    /\ root_call' = <<>>
    /\ steps' = NoSteps
    /\ UNCHANGED <<handle, solver, pre, outcomes>>
    /\ UNCHANGED notSolve

Next ==
    \/ SolveRaises
    \/ SolveBegins
    \/ Merge
    \/ FinalJoin
    \/ Relabel
    \/ RootTree
    \/ RootTreeRaises
    \/ Populate
    \/ Return

Spec == Init /\ [][Next]_vars

(***************************************************************************)
(* Properties of solve                                                     *)
(***************************************************************************)
\* The tree as solve built it: relabelled and not yet rooted.
Built == pc = "root" \/ (pc = "populate" /\ root_call = <<>>)

\* The sample labels of the matrix solve works on.
Samples == Range(dissimilarity_map[1].index)

Leaves(G) == {n \in G.nodes : degree(G, n) = 1}

Connected(G) == \A n \in G.nodes : Reachable(G, n) = G.nodes

\* C1: for every input matrix over N >= 2 distinct sample labels, the tree
\* solve builds (before rooting) has exactly the N sample labels as its
\* degree-1 nodes and exactly N-2 synthesized internal nodes.
C1_LeavesAreTheSamples ==
    Built =>
        /\ Leaves(tree) = Samples
        /\ Cardinality(tree.nodes \ Samples) = Cardinality(Samples) - 2

\* C2: the graph solve hands on is connected and acyclic: it has 2N-2 nodes
\* and 2N-3 edges, every synthesized node has degree 3, and for N = 2 it is
\* the single edge between the two samples.
C2_ConnectedAcyclic ==
    Built =>
        /\ Connected(tree)
        /\ Cardinality(tree.nodes) = 2 * Cardinality(Samples) - 2
        /\ number_of_edges(tree) = 2 * Cardinality(Samples) - 3
        /\ \A n \in tree.nodes \ Samples : degree(tree, n) = 3

\* The nodes not yet attached under a synthesized node: a sample without an
\* edge, a synthesized node with no edge but the two to its children.
Unattached(G) ==
    {n \in G.nodes : degree(G, n) = (IF n \in Samples THEN 0 ELSE 2)}

\* C3: matrix and tree change in lockstep: every loop iteration adds exactly
\* one node and two edges to the tree and takes exactly one row and one
\* column from the working matrix, the matrix stays square, and at every loop
\* head the matrix index is the set of tree nodes not yet attached under a
\* synthesized node.
C3_Lockstep ==
    /\ [](pc = "loop" =>
            /\ Len(working_map.index) = Len(working_map.columns)
            /\ Range(working_map.index) = Unattached(tree))
    /\ [][pc = "loop" /\ pc' = "loop" =>
            /\ Cardinality(tree'.nodes) = Cardinality(tree.nodes) + 1
            /\ number_of_edges(tree') = number_of_edges(tree) + 2
            /\ Len(working_map'.index) = Len(working_map.index) - 1
            /\ Len(working_map'.columns) = Len(working_map.columns) - 1]_vars

\* The handle as the current (latest) solve call found it.
AtCall == pre[Len(pre)]

\* The cases of C4 at the latest call.
NoMapNoFunction == AtCall.dissimilarity_map = <<>> /\ ~dissimilarity_function

NoRootNoFunction ==
    add_root /\ AtCall.root_sample_name = <<>> /\ ~dissimilarity_function

\* C4: solve fails with DistanceSolverError, and reaches neither the merge
\* loop nor populate_tree, when (a) the handle has no dissimilarity map and
\* the solver no dissimilarity function, or (b) add_root is set, the handle
\* has no root sample name and the solver no dissimilarity function, also
\* when a dissimilarity map is present.
C4_SetupFails ==
    (Len(pre) > 0 /\ (NoMapNoFunction \/ NoRootNoFunction)) =>
        /\ pc \in {"raised", "idle"}
        /\ Len(outcomes) = Len(pre)
        /\ outcomes[Len(pre)] = "DistanceSolverError"
        /\ steps = NoSteps
        /\ tree = EmptyGraph
        /\ handle_tree = AtCall.tree

\* C4 witness: case (b) with a precomputed map on the handle has raised.
C4_Witness ==
    /\ pc = "raised"
    /\ NoRootNoFunction
    /\ AtCall.dissimilarity_map # <<>>
    /\ outcomes[Len(pre)] = "DistanceSolverError"

\* C5: when solve raises, the handle is left unmodified: its root sample
\* name, character matrix, dissimilarity map and tree are the same as before
\* the call. (The claim's further statement, that a solve that succeeds
\* changes nothing on the handle before populate_tree, fails as well: setup
\* stores the map it computes and the implicit root on the handle.)
C5_HandleUnmodified ==
    pc = "raised" => Snapshot = AtCall

\* C6: the rooting rule is invoked exactly when the handle has a root sample
\* name once setup has finished, after the final join and before
\* populate_tree, with that root sample, which is a node of the tree; with
\* no root sample the unrooted tree is installed as built.
C6_Rooting ==
    /\ pc \in {"populate", "done"} => (root_call # <<>> <=> root_sample_name # <<>>)
    /\ pc \in {"loop", "relabel"} => root_call = <<>>
    /\ root_call # <<>> =>
          /\ steps.populate = 0 \/ pc = "done"
          /\ root_call[1].root_sample = root_sample_name[1]
          /\ root_call[1].root_sample \in root_call[1].tree.nodes
    /\ (pc = "done" /\ root_sample_name = <<>>) =>
          handle_tree = <<tree>> /\ ~tree.directed

\* Positions of two different samples with identical state vectors.
Duplicates ==
    {d \in (DOMAIN character_matrix.index) \X (DOMAIN character_matrix.index) :
        d[1] < d[2] /\ character_matrix.values[d[1]] = character_matrix.values[d[2]]}

\* C7: two samples with identical state vectors are represented by one
\* single row of the pre-solve matrix, and after solve both names are in the
\* tree as sibling leaves attached to that row's leaf.
C7_DuplicateRoundTrip ==
    pc = "done" =>
        \A d \in Duplicates :
            LET s1 == character_matrix.index[d[1]]
                s2 == character_matrix.index[d[2]]
                T == handle_tree[1]
            IN  /\ Cardinality({p \in DOMAIN dissimilarity_map[1].index :
                        dissimilarity_map[1].index[p] \in {s1, s2}}) = 1
                /\ {s1, s2} \subseteq T.nodes
                /\ \E l \in T.nodes : <<l, s1>> \in T.edges /\ <<l, s2>> \in T.edges

(***************************************************************************)
(* Rooted trees given to the tree utilities                                *)
(***************************************************************************)
NodeName(k) == "n" \o str(k)

\* Parent maps of the rooted trees over n0 .. n(n-1): every node but n0 has
\* a parent of smaller number, which gives every shape of rooted tree.
ParentMaps(n) == {par \in [1..(n - 1) -> 0..(n - 2)] : \A k \in 1..(n - 1) : par[k] < k}

TreeOf(n, par) ==
    [nodes    |-> {NodeName(k) : k \in 0..(n - 1)},
     edges    |-> {<<NodeName(par[k]), NodeName(k)>> : k \in 1..(n - 1)},
     directed |-> TRUE]

RootedTrees == UNION {{TreeOf(n, par) : par \in ParentMaps(n)} : n \in 2..MaxNodes}

(***************************************************************************)
(* DistanceSolver.__append_sample_names                                    *)
(***************************************************************************)
\* line 256
append_leaves(G) == {n \in G.nodes : degree(G, n) = 1}

\* line 264: the samples of leaf l without l itself
append_samples(mapping, l) == Range(mapping[l]) \ {l}

\* lines 258-267: the edges the loop adds
append_edges(G, mapping) ==
    {e \in append_leaves(G) \X UNION {Range(mapping[l]) : l \in DOMAIN mapping} :
        e[1] \in DOMAIN mapping /\ e[2] \in append_samples(mapping, e[1])}

\* lines 256-269; DiGraph.add_edges_from adds the edges and their end nodes
append_sample_names(G, mapping) ==
    [G EXCEPT !.nodes = @ \cup {e[2] : e \in append_edges(G, mapping)},
              !.edges = @ \cup append_edges(G, mapping)]

\* The sample lists a leaf l can stand for: l alone, l and a duplicate in
\* either order, l among two duplicates, and two samples named differently
\* from the leaf.
Groups(l) ==
    {<<l>>, <<l, l \o "a">>, <<l \o "a", l>>, <<l \o "a", l, l \o "b">>,
     <<l \o "a", l \o "b">>}

\* The mappings over some of the leaves of G.
Mappings(G) ==
    UNION {{m \in [K -> UNION {Groups(l) : l \in K}] : \A l \in K : m[l] \in Groups(l)} :
             K \in SUBSET append_leaves(G)}

\* solve is not running.
SolveIdle ==
    /\ root_sample_name = <<>>
    /\ character_matrix = [index |-> <<>>, values |-> <<>>]
    /\ dissimilarity_map = <<>>
    /\ handle_tree = <<>>
    /\ dissimilarity_function = FALSE
    /\ add_root = FALSE
    /\ InitLocals
    /\ pre = <<>>
    /\ outcomes = <<>>

InitAppend ==
    /\ SolveIdle
    /\ CollapseIdle
    /\ UnifurcationsIdle
    /\ UtilitiesIdle
    /\ solution \in RootedTrees
    /\ state_to_sample_mapping \in Mappings(solution)
    /\ append_pc = "call"
    /\ append_pre = solution

\* lines 256-269
AppendSampleNames ==
    /\ append_pc = "call"
    /\ solution' = append_sample_names(solution, state_to_sample_mapping)
    /\ append_pc' = "returned"
    /\ UNCHANGED <<solveVars, collapseVars, unifVars, utilityVars, state_to_sample_mapping, append_pre>>

NextAppend == AppendSampleNames

SpecAppend == InitAppend /\ [][NextAppend]_vars

\* Every sample name of the mapping.
MappedSamples ==
    UNION {Range(state_to_sample_mapping[l]) : l \in DOMAIN state_to_sample_mapping}

\* C8: for every leaf l of the solution that is a key of the mapping an edge
\* l -> s is added for every sample s mapped to l with s # l, no edge l -> l
\* is added, leaves that are not keys and all existing edges are left as they
\* were, and afterwards every sample name of the mapping is a leaf (a node of
\* degree 1, as line 256 has it) of the tree.
C8_Reattachment ==
    append_pc = "returned" =>
        /\ \A l \in append_leaves(append_pre) \cap DOMAIN state_to_sample_mapping :
              \A s \in Range(state_to_sample_mapping[l]) \ {l} : <<l, s>> \in solution.edges
        /\ \A n \in solution.nodes : <<n, n>> \notin solution.edges
        /\ append_pre.edges \subseteq solution.edges
        /\ \A e \in solution.edges \ append_pre.edges :
              e[1] \in append_leaves(append_pre) \cap DOMAIN state_to_sample_mapping
        /\ \A s \in MappedSamples :
              s \in append_leaves(solution)

\* What holds of re-attachment: C8 but for its last statement, of which this
\* is left: every sample of the mapping is a node of the tree, and every
\* sample but a leaf that stands for further samples is a leaf.
AppendFrame ==
    append_pc = "returned" =>
        /\ \A l \in append_leaves(append_pre) \cap DOMAIN state_to_sample_mapping :
              \A s \in Range(state_to_sample_mapping[l]) \ {l} : <<l, s>> \in solution.edges
        /\ \A n \in solution.nodes : <<n, n>> \notin solution.edges
        /\ append_pre.edges \subseteq solution.edges
        /\ \A e \in solution.edges \ append_pre.edges :
              e[1] \in append_leaves(append_pre) \cap DOMAIN state_to_sample_mapping
        /\ \A s \in MappedSamples :
              /\ s \in solution.nodes
              /\ s \in append_leaves(solution) \/
                   (s \in DOMAIN state_to_sample_mapping
                      /\ append_samples(state_to_sample_mapping, s) # {})

(***************************************************************************)
(* solver_utilities: annotate_ancestral_characters, collapse_edges,        *)
(* collapse_tree                                                           *)
(***************************************************************************)
\* Character states: -1 (the usual missing symbol), 0 (unmutated), 1 and 2.
Symbols == {-1, 0, 1, 2}

\* State vectors of NumChars sites: any symbol at the first site; each later
\* site repeats it or is unmutated.
SiteVectors ==
    {[k \in 1..NumChars |-> IF k = 1 \/ c[2] = 1 THEN c[1] ELSE 0] : c \in Symbols \X {0, 1}}

\* data_utilities.get_lca_characters: per site, the symbol all children that
\* are not missing agree on if it is not the unmutated one, and 0 otherwise.
get_lca_characters(vecs, missing) ==
    LET k == Len(CHOOSE v \in vecs : TRUE)
    IN  [site \in 1..k |->
            LET chars == {v[site] : v \in vecs} \ {missing}
            IN  IF Cardinality(chars) = 1 /\ chars # {0}
                THEN CHOOSE x \in chars : TRUE
                ELSE 0]

RECURSIVE annotate_one_child(_, _, _, _)
\* annotate_ancestral_characters with vecs holding the vector of one child
\* only (vecs reset inside the loop of lines 49-51).
annotate_one_child(T, node, ntc, missing) ==
    IF out_degree(T, node) = 0
    THEN ntc
    ELSE LET RECURSIVE Below(_, _)
             Below(S, d) ==
                 IF S = {} THEN d
                 ELSE LET i == CHOOSE x \in S : TRUE
                      IN  Below(S \ {i}, annotate_one_child(T, i, d, missing))
             below == Below(successors(T, node), ntc)
             last == CHOOSE i \in successors(T, node) : TRUE
         IN  below @@ (node :> get_lca_characters({below[last]}, missing))

RECURSIVE annotate_zero_missing(_, _, _, _)
\* annotate_ancestral_characters with 0 handed to get_lca_characters in place
\* of missing_char (line 52).
annotate_zero_missing(T, node, ntc, missing) ==
    IF out_degree(T, node) = 0
    THEN ntc
    ELSE LET RECURSIVE Below(_, _)
             Below(S, d) ==
                 IF S = {} THEN d
                 ELSE LET i == CHOOSE x \in S : TRUE
                      IN  Below(S \ {i}, annotate_zero_missing(T, i, d, missing))
             below == Below(successors(T, node), ntc)
             vecs == {below[i] : i \in successors(T, node)}
         IN  below @@ (node :> get_lca_characters(vecs, 0))

RECURSIVE annotate_ancestral_characters(_, _, _, _)
\* lines 46-53: the dictionary after the call on node. The subtrees of the
\* children are disjoint, so the order of the loop of line 49 does not show.
annotate_ancestral_characters(T, node, ntc, missing) ==
    IF out_degree(T, node) = 0
    THEN ntc
    ELSE LET RECURSIVE Below(_, _)
             Below(S, d) ==
                 IF S = {} THEN d
                 ELSE LET i == CHOOSE x \in S : TRUE
                      IN  Below(S \ {i}, annotate_ancestral_characters(T, i, d, missing))
             below == Below(successors(T, node), ntc)
             vecs == {below[i] : i \in successors(T, node)}
         IN  below @@ (node :> get_lca_characters(vecs, missing))

\* DiGraph.remove_node: the node, its edges and its attributes go.
remove_nodes(T, ns) ==
    [T EXCEPT !.nodes = @ \ ns,
              !.edges = {e \in @ : e[1] \notin ns /\ e[2] \notin ns}]

\* collapse_edges without the recursive call of line 84: only the children
\* of the node it is called on are looked at.
collapse_edges_top(T, node, ntc) ==
    IF out_degree(T, node) = 0
    THEN T
    ELSE LET to_collapse == successors(T, node)
             to_remove == {i \in to_collapse :
                             out_degree(T, i) > 0 /\ ntc[i] = ntc[node]}
             joined == [T EXCEPT !.edges =
                          @ \cup {<<node, j>> : j \in UNION {successors(T, i) : i \in to_remove}}]
         IN  remove_nodes(joined, to_remove)

RECURSIVE collapse_edges_leaves(_, _, _)
\* collapse_edges without the test of line 83: a leaf identical to its
\* parent is removed like an internal node.
collapse_edges_leaves(T, node, ntc) ==
    IF out_degree(T, node) = 0
    THEN T
    ELSE LET to_collapse == successors(T, node)
             RECURSIVE Below(_, _)
             Below(S, G) ==
                 IF S = {} THEN G
                 ELSE LET i == CHOOSE x \in S : TRUE
                      IN  Below(S \ {i}, collapse_edges_leaves(G, i, ntc))
             below == Below(to_collapse, T)
             to_remove == {i \in to_collapse : ntc[i] = ntc[node]}
             joined == [below EXCEPT !.edges =
                          @ \cup {<<node, j>> : j \in UNION {successors(below, i) : i \in to_remove}}]
         IN  remove_nodes(joined, to_remove)

RECURSIVE collapse_edges_once(_, _, _)
\* collapse_edges leaving the loop of line 82 at the first child it collapses:
\* at most one child of a node is removed.
collapse_edges_once(T, node, ntc) ==
    IF out_degree(T, node) = 0
    THEN T
    ELSE LET to_collapse == successors(T, node)
             RECURSIVE Below(_, _)
             Below(S, G) ==
                 IF S = {} THEN G
                 ELSE LET i == CHOOSE x \in S : TRUE
                      IN  Below(S \ {i},
                                IF out_degree(G, i) > 0 THEN collapse_edges_once(G, i, ntc) ELSE G)
             below == Below(to_collapse, T)
             identical == {i \in to_collapse :
                             out_degree(T, i) > 0 /\ ntc[i] = ntc[node]}
             to_remove == IF identical = {} THEN {} ELSE {CHOOSE i \in identical : TRUE}
             joined == [below EXCEPT !.edges =
                          @ \cup {<<node, j>> : j \in UNION {successors(below, i) : i \in to_remove}}]
         IN  remove_nodes(joined, to_remove)

RECURSIVE collapse_edges_orphans(_, _, _)
\* collapse_edges without lines 86-87: an identical child is removed and its
\* children are not given to the node above it
collapse_edges_orphans(T, node, ntc) ==
    IF out_degree(T, node) = 0
    THEN T
    ELSE LET to_collapse == successors(T, node)
             RECURSIVE Below(_, _)
             Below(S, G) ==
                 IF S = {} THEN G
                 ELSE LET i == CHOOSE x \in S : TRUE
                      IN  Below(S \ {i},
                                IF out_degree(G, i) > 0 THEN collapse_edges_orphans(G, i, ntc) ELSE G)
             below == Below(to_collapse, T)
             to_remove == {i \in to_collapse :
                             out_degree(T, i) > 0 /\ ntc[i] = ntc[node]}
         IN  remove_nodes(below, to_remove)

RECURSIVE collapse_edges(_, _, _)
\* lines 76-90: the tree after the call on node
collapse_edges(T, node, ntc) ==
    IF out_degree(T, node) = 0
    THEN T
    ELSE LET to_collapse == successors(T, node)
             RECURSIVE Below(_, _)
             Below(S, G) ==
                 IF S = {} THEN G
                 ELSE LET i == CHOOSE x \in S : TRUE
                      IN  Below(S \ {i},
                                IF out_degree(G, i) > 0 THEN collapse_edges(G, i, ntc) ELSE G)
             below == Below(to_collapse, T)
             to_remove == {i \in to_collapse :
                             out_degree(T, i) > 0 /\ ntc[i] = ntc[node]}
             joined == [below EXCEPT !.edges =
                          @ \cup {<<node, j>> : j \in UNION {successors(below, i) : i \in to_remove}}]
         IN  remove_nodes(joined, to_remove)

\* line 120-122
collapse_leaves(T) == {n \in T.nodes : out_degree(T, n) = 0 /\ in_degree(T, n) = 1}

\* line 123
collapse_root(T) == CHOOSE n \in T.nodes : in_degree(T, n) = 0

\* lines 135-137 with every leaf given the row of one and the same leaf
first_row_characters(T, matrix) ==
    [i \in collapse_leaves(T) |-> matrix[CHOOSE l \in collapse_leaves(T) : TRUE]]

\* lines 135-137: the rows of the character matrix, leaf by leaf
leaf_characters(T, matrix) == [i \in collapse_leaves(T) |-> matrix[i]]

\* line 129 testing truth values in place of "is None": 0 counts as absent
collapse_raises_falsy ==
    infer_ancestral_characters /\
        (leaf_matrix = <<>> \/ missing_char = <<>> \/ missing_char = <<0>>)

\* line 129
collapse_raises ==
    infer_ancestral_characters /\ (leaf_matrix = <<>> \/ missing_char = <<>>)

\* lines 135-140: node_to_characters as inferred from the leaves
inferred_annotation ==
    annotate_ancestral_characters(collapse_T, collapse_root(collapse_T),
        leaf_characters(collapse_T, leaf_matrix[1]), missing_char[1])

\* lines 142-143: node_to_characters as read from the "characters" attributes
stored_annotation == [i \in collapse_T.nodes |-> node_characters[i]]

\* lines 128-143: node_to_characters when collapse_edges is called
collapse_annotation ==
    IF infer_ancestral_characters THEN inferred_annotation ELSE stored_annotation

StoredVectors == {Vector(0), Vector(1)}

\* test_network with node18 hung from node14 instead of node16.
test_network_rewired ==
    [nodes    |-> {"node" \o str(k) : k \in 0..18},
     edges    |-> {<<"node0", "node1">>, <<"node0", "node2">>, <<"node1", "node3">>,
                   <<"node1", "node4">>, <<"node2", "node5">>, <<"node2", "node6">>,
                   <<"node4", "node7">>, <<"node4", "node8">>, <<"node8", "node9">>,
                   <<"node8", "node10">>, <<"node10", "node11">>, <<"node10", "node12">>,
                   <<"node12", "node13">>, <<"node12", "node14">>, <<"node14", "node15">>,
                   <<"node14", "node16">>, <<"node16", "node17">>, <<"node14", "node18">>},
     directed |-> TRUE]

\* The reference tree of the tests (test_network): node0 .. node18.
test_network ==
    [nodes    |-> {"node" \o str(k) : k \in 0..18},
     edges    |-> {<<"node0", "node1">>, <<"node0", "node2">>, <<"node1", "node3">>,
                   <<"node1", "node4">>, <<"node2", "node5">>, <<"node2", "node6">>,
                   <<"node4", "node7">>, <<"node4", "node8">>, <<"node8", "node9">>,
                   <<"node8", "node10">>, <<"node10", "node11">>, <<"node10", "node12">>,
                   <<"node12", "node13">>, <<"node12", "node14">>, <<"node14", "node15">>,
                   <<"node14", "node16">>, <<"node16", "node17">>, <<"node16", "node18">>},
     directed |-> TRUE]

\* The reference character matrix of the tests: ten leaves, eight sites.
test_character_matrix ==
    ("node3"  :> <<1, 0, 0, 0, 0, 0, 0, 0>>) @@
    ("node7"  :> <<1, 1, 0, 0, 0, 0, 0, 0>>) @@
    ("node9"  :> <<1, 1, 1, 0, 0, 0, 0, 0>>) @@
    ("node11" :> <<1, 1, 1, 1, 0, 0, 0, 0>>) @@
    ("node13" :> <<1, 1, 1, 1, 1, 0, 0, 0>>) @@
    ("node15" :> <<1, 1, 1, 1, 1, 1, 0, 0>>) @@
    ("node17" :> <<1, 1, 1, 1, 1, 1, 1, 0>>) @@
    ("node18" :> <<1, 1, 1, 1, 1, 1, 1, 1>>) @@
    ("node5"  :> <<2, 0, 0, 0, 0, 0, 0, 0>>) @@
    ("node6"  :> <<2, 2, 0, 0, 0, 0, 0, 0>>)

InitCollapse ==
    /\ SolveIdle
    /\ AppendIdle
    /\ UnifurcationsIdle
    /\ UtilitiesIdle
    /\ \/ /\ infer_ancestral_characters = TRUE
          /\ collapse_T \in RootedTrees
          /\ leaf_matrix \in {<<m>> : m \in [collapse_leaves(collapse_T) -> SiteVectors]}
          /\ missing_char \in {<<-1>>, <<0>>}
          /\ node_characters = <<>>
       \/ /\ infer_ancestral_characters = TRUE
          /\ collapse_T \in RootedTrees
          /\ leaf_matrix \in {<<>>, <<[l \in collapse_leaves(collapse_T) |-> Vector(1)]>>}
          /\ missing_char \in {<<>>, <<-1>>, <<0>>}
          /\ leaf_matrix = <<>> \/ missing_char = <<>>
          /\ node_characters = <<>>
       \/ /\ infer_ancestral_characters = FALSE
          /\ leaf_matrix = <<>>
          /\ missing_char = <<>>
          /\ collapse_T \in RootedTrees
          /\ node_characters \in [collapse_T.nodes -> StoredVectors]
       \/ /\ infer_ancestral_characters = TRUE
          /\ collapse_T = test_network
          /\ leaf_matrix = <<test_character_matrix>>
          /\ missing_char = <<-1>>
          /\ node_characters = <<>>
    /\ node_to_characters = <<>>
    /\ collapse_pc = "call"
    /\ collapse_pre = [tree |-> collapse_T, characters |-> node_characters]
    /\ collapse_first = <<>>

\* lines 120-133: inference is asked for without what it needs
CollapseRaises ==
    /\ collapse_pc = "call"
    /\ collapse_raises
    /\ collapse_pc' = "raised"
    /\ UNCHANGED <<solveVars, appendVars, unifVars, utilityVars, collapse_T, node_characters,
                   infer_ancestral_characters, leaf_matrix, missing_char,
                   node_to_characters, collapse_pre, collapse_first>>

\* lines 120-143: node_to_characters is filled, by inference (which also sets
\* the "characters" attribute of the nodes it annotates) or from the attributes
CollapseAnnotate ==
    /\ collapse_pc = "call"
    /\ ~collapse_raises
    /\ node_to_characters' = collapse_annotation
    /\ node_characters' = IF infer_ancestral_characters
                          THEN collapse_annotation @@ node_characters
                          ELSE node_characters
    /\ collapse_pc' = "collapse"
    /\ UNCHANGED <<solveVars, appendVars, unifVars, utilityVars, collapse_T, infer_ancestral_characters,
                   leaf_matrix, missing_char, collapse_pre, collapse_first>>

\* lines 146-147
CollapseEdges ==
    /\ collapse_pc = "collapse"
    /\ collapse_T' = collapse_edges(collapse_T, collapse_root(collapse_T), node_to_characters)
    /\ node_characters' = [n \in (DOMAIN node_characters) \cap collapse_T'.nodes |->
                              node_characters[n]]
    /\ collapse_pc' = "returned"
    /\ UNCHANGED <<solveVars, appendVars, unifVars, utilityVars, infer_ancestral_characters, leaf_matrix,
                   missing_char, node_to_characters, collapse_pre, collapse_first>>

\* lines 120-147, a whole call: collapse_tree is applied to the tree a first
\* call has returned, with the same arguments or with
\* infer_ancestral_characters false (the annotations the tree carries by now)
CollapseAgain ==
    /\ collapse_pc = "returned"
    /\ collapse_first = <<>>
    /\ \E infer \in {infer_ancestral_characters, FALSE} :
          LET ntc == node_to_characters'
              T == collapse_T'
              attrs == IF infer THEN ntc @@ node_characters ELSE node_characters
          IN  /\ infer_ancestral_characters' = infer
              /\ node_to_characters' = IF infer THEN inferred_annotation ELSE stored_annotation
              /\ collapse_T' = collapse_edges(collapse_T, collapse_root(collapse_T), ntc)
              /\ node_characters' = [n \in (DOMAIN attrs) \cap T.nodes |-> attrs[n]]
    /\ collapse_pre' = [tree |-> collapse_T, characters |-> node_characters]
    /\ collapse_first' = <<[given |-> collapse_pre.tree, returned |-> collapse_T]>>
    /\ UNCHANGED <<solveVars, appendVars, unifVars, utilityVars, leaf_matrix, missing_char, collapse_pc>>

NextCollapse ==
    \/ CollapseRaises
    \/ CollapseAnnotate
    \/ CollapseEdges
    \/ CollapseAgain

SpecCollapse == InitCollapse /\ [][NextCollapse]_vars

\* Inference has run and collapse_edges is about to start.
Annotated == collapse_pc = "collapse" /\ infer_ancestral_characters

\* C9: after ancestral reconstruction from the root, as collapse_tree runs
\* it, every internal node has a character vector as long as the leaf
\* vectors, every leaf vector is the row of its leaf, and every node of the
\* tree is annotated before collapse_edges starts.
C9_EveryNodeAnnotated ==
    Annotated =>
        /\ \A n \in collapse_T.nodes :
              /\ n \in DOMAIN node_to_characters
              /\ n \in DOMAIN node_characters
              /\ node_characters[n] = node_to_characters[n]
              /\ \A l \in collapse_leaves(collapse_T) :
                    Len(node_to_characters[n]) = Len(leaf_matrix[1][l])
        /\ \A l \in collapse_leaves(collapse_T) :
              node_to_characters[l] = leaf_matrix[1][l]

\* C9 witness: a tree with an internal node below the root and two leaves of
\* different vectors has been annotated.
C9_Witness ==
    /\ Annotated
    /\ \E n \in collapse_T.nodes :
          in_degree(collapse_T, n) = 1 /\ out_degree(collapse_T, n) > 0
    /\ \E l1, l2 \in collapse_leaves(collapse_T) : leaf_matrix[1][l1] # leaf_matrix[1][l2]

\* C10: for every internal node and every site, the reconstructed state is
\* the symbol s if the states of the children at that site, those equal to
\* the missing symbol left out, all agree on one non-ancestral symbol s, and
\* the ancestral symbol 0 otherwise.
C10_CaminSokalRule ==
    Annotated =>
        \A n \in {x \in collapse_T.nodes : out_degree(collapse_T, x) > 0} :
            \A site \in 1..Len(node_to_characters[n]) :
                LET seen == {node_to_characters[c][site] : c \in successors(collapse_T, n)}
                                \ {missing_char[1]}
                IN  \/ /\ \E s \in seen : seen = {s} /\ s # 0
                       /\ node_to_characters[n][site] \in seen
                    \/ /\ ~\E s \in seen : seen = {s} /\ s # 0
                       /\ node_to_characters[n][site] = 0

\* C10 witness: a node whose children are a missing one and one of state 2
\* has got 2, and a node whose children disagree (1 and 2) has got 0.
C10_Witness ==
    /\ Annotated
    /\ missing_char = <<-1>>
    /\ \E n \in collapse_T.nodes :
          /\ {node_to_characters[c][1] : c \in successors(collapse_T, n)} = {-1, 2}
          /\ node_to_characters[n][1] = 2
    /\ \E n \in collapse_T.nodes :
          /\ {node_to_characters[c][1] : c \in successors(collapse_T, n)} = {1, 2}
          /\ node_to_characters[n][1] = 0

(***************************************************************************)
(* Reconstruction on perfect-phylogeny inputs                              *)
(***************************************************************************)
\* The leaves at or below node n.
LeavesBelow(T, n) == Reachable(T, n) \cap collapse_leaves(T)

\* Site by site, the state the vectors have in common, and 0 where they differ.
SharedVector(vecs) ==
    LET k == Len(CHOOSE v \in vecs : TRUE)
    IN  [site \in 1..k |->
            IF \A v, w \in vecs : v[site] = w[site]
            THEN (CHOOSE v \in vecs : TRUE)[site]
            ELSE 0]

\* No leaf has the missing symbol at any site, and the missing symbol is not
\* the unmutated state 0.
NoMissingData ==
    /\ missing_char[1] # 0
    /\ \A l \in DOMAIN leaf_matrix[1] : \A site \in DOMAIN leaf_matrix[1][l] :
        leaf_matrix[1][l][site] # missing_char[1]

\* Every mutated state of every site arose once: the leaves that carry it are
\* the leaves below one edge of the tree.
NoHomoplasy ==
    LET m == leaf_matrix[1]
    IN  \A l \in DOMAIN m : \A site \in DOMAIN m[l] :
            m[l][site] # 0 =>
                \E n \in collapse_T.nodes \ {collapse_root(collapse_T)} :
                    LeavesBelow(collapse_T, n) =
                        {x \in DOMAIN m : m[x][site] = m[l][site]}

PerfectPhylogeny == Annotated /\ NoMissingData /\ NoHomoplasy

InternalNodes(T) == {n \in T.nodes : out_degree(T, n) > 0}

\* The vector every internal node gets on a perfect-phylogeny input, and the
\* vectors of node0, node2 and node10 of the reference tree.
SharedBelow ==
    /\ \A n \in InternalNodes(collapse_T) :
          node_to_characters[n] =
              SharedVector({node_to_characters[l] : l \in LeavesBelow(collapse_T, n)})
    /\ collapse_T = test_network =>
          /\ node_to_characters["node0"] = <<0, 0, 0, 0, 0, 0, 0, 0>>
          /\ node_to_characters["node2"] = <<2, 0, 0, 0, 0, 0, 0, 0>>
          /\ node_to_characters["node10"] = <<1, 1, 1, 1, 0, 0, 0, 0>>

RootIsAncestral ==
    \A site \in DOMAIN node_to_characters[collapse_root(collapse_T)] :
        node_to_characters[collapse_root(collapse_T)][site] = 0

\* C11: on a perfect-phylogeny input (no homoplasy, no missing data) every
\* internal node gets the vector shared by the leaves below it and the root
\* gets the all-ancestral vector; on the reference tree node0 = [0,0,0,0,0,0,0,0],
\* node2 = [2,0,0,0,0,0,0,0] and node10 = [1,1,1,1,0,0,0,0].
C11_PerfectPhylogeny ==
    PerfectPhylogeny => (SharedBelow /\ RootIsAncestral)

\* C11 as amended: the root gets the all-ancestral vector if it has at
\* least two children; a root with one child gets the vector of that child.
C11_PerfectPhylogenyAmended ==
    PerfectPhylogeny =>
        /\ SharedBelow
        /\ out_degree(collapse_T, collapse_root(collapse_T)) >= 2 => RootIsAncestral
        /\ out_degree(collapse_T, collapse_root(collapse_T)) = 1 =>
              \A c \in successors(collapse_T, collapse_root(collapse_T)) :
                  node_to_characters[collapse_root(collapse_T)] = node_to_characters[c]

\* C11 witness: the reference tree has been reconstructed, node10 getting
\* the four-site prefix its leaves share.
C11_Witness ==
    /\ PerfectPhylogeny
    /\ collapse_T = test_network
    /\ node_to_characters["node10"] = <<1, 1, 1, 1, 0, 0, 0, 0>>
    /\ RootIsAncestral

(***************************************************************************)
(* Properties of collapse_tree                                             *)
(***************************************************************************)
\* collapse_tree was asked to infer without a matrix or without a symbol.
InferWithoutArguments ==
    /\ collapse_pc # "call"
    /\ infer_ancestral_characters
    /\ leaf_matrix = <<>> \/ missing_char = <<>>

\* C12: collapse_tree called with infer_ancestral_characters true and without
\* a character matrix or without a missing-state symbol raises
\* InferAncestorError before it changes any node, edge or annotation of the
\* tree; a missing-state symbol equal to 0 counts as supplied.
C12_InferAncestorError ==
    /\ InferWithoutArguments =>
          /\ collapse_pc = "raised"
          /\ collapse_T = collapse_pre.tree
          /\ node_characters = collapse_pre.characters
          /\ node_to_characters = <<>>
    /\ collapse_pc = "raised" => InferWithoutArguments
    /\ (collapse_pc # "call" /\ leaf_matrix # <<>> /\ missing_char = <<0>>) =>
          collapse_pc # "raised"

\* C12 witness: a call with a matrix and no missing symbol has raised.
C12_Witness ==
    /\ collapse_pc = "raised"
    /\ leaf_matrix # <<>>
    /\ missing_char = <<>>
    /\ collapse_T = collapse_pre.tree

\* C13: after collapse_tree returns, no internal (non-leaf) non-root node of
\* the tree has a character vector identical to that of its parent, for
\* every input tree shape and annotation.
C13_NoMutationlessEdge ==
    collapse_pc = "returned" =>
        \A e \in collapse_T.edges :
            out_degree(collapse_T, e[2]) > 0 =>
                node_characters[e[2]] # node_characters[e[1]]

\* C13 witness: collapse_tree has returned a tree from which it removed a
\* node and which still has an internal node below the root.
C13_Witness ==
    /\ collapse_pc = "returned"
    /\ collapse_T.nodes # collapse_pre.tree.nodes
    /\ \E e \in collapse_T.edges : out_degree(collapse_T, e[2]) > 0

\* The nodes without a parent.
Roots(T) == {n \in T.nodes : in_degree(T, n) = 0}

\* The nodes without a child.
Tips(T) == {n \in T.nodes : out_degree(T, n) = 0}

\* C14: mutationless-edge collapse never removes a leaf or the root: the
\* leaf set and the root of the tree are the same before and after
\* collapse_tree, also when a leaf's character vector is identical to its
\* parent's, and collapse_edges changes no character vector.
C14_LeavesAndRootKept ==
    collapse_pc = "returned" =>
        /\ Tips(collapse_T) = Tips(collapse_pre.tree)
        /\ collapse_leaves(collapse_T) = collapse_leaves(collapse_pre.tree)
        /\ Roots(collapse_T) = Roots(collapse_pre.tree)
        /\ \A n \in collapse_T.nodes : node_characters[n] = node_to_characters[n]
        /\ ~infer_ancestral_characters =>
              \A n \in collapse_T.nodes : node_characters[n] = collapse_pre.characters[n]

\* C14 witness: collapse_tree has removed a node from a tree in which a leaf
\* has the vector of its parent, and has returned.
C14_Witness ==
    /\ collapse_pc = "returned"
    /\ collapse_T.nodes # collapse_pre.tree.nodes
    /\ \E e \in collapse_pre.tree.edges :
          /\ e[2] \in Tips(collapse_pre.tree)
          /\ node_to_characters[e[2]] = node_to_characters[e[1]]

\* A second call of collapse_tree has returned.
SecondPass == collapse_pc = "returned" /\ collapse_first # <<>>

SameAsFirst ==
    /\ collapse_T.nodes = collapse_first[1].returned.nodes
    /\ collapse_T.edges = collapse_first[1].returned.edges

\* C15: idempotence with stored annotations: collapse_tree with
\* infer_ancestral_characters false, applied to a tree collapse_tree has
\* already collapsed, removes no node and adds no edge.
C15_IdempotentStored ==
    (SecondPass /\ ~infer_ancestral_characters) => SameAsFirst

\* C15 witness: the first call removed a node, and the second call, made
\* with the stored annotations, has returned.
C15_Witness ==
    /\ SecondPass
    /\ ~infer_ancestral_characters
    /\ collapse_first[1].returned.nodes # collapse_first[1].given.nodes

\* C16: idempotence with inference: collapse_tree with
\* infer_ancestral_characters true, applied a second time with the same
\* character matrix and missing symbol, yields the nodes and edges of the
\* first application, for every tree and every leaf matrix.
C16_IdempotentInferred ==
    (SecondPass /\ infer_ancestral_characters) => SameAsFirst

(***************************************************************************)
(* BirthDeathFitnessSimulator.collapse_unifurcations                       *)
(***************************************************************************)
\* Edge weights (branch lengths) of the trees given to collapse_unifurcations.
Weights == {1, 2}

\* The simulator names its nodes 0, 1, 2, ... and the implicit root is 0.
WeightedTreeOf(n, par, w) ==
    [nodes    |-> 0..(n - 1),
     edges    |-> {<<par[k], k>> : k \in 1..(n - 1)},
     weight   |-> [e \in {<<par[k], k>> : k \in 1..(n - 1)} |-> w[e[2]]],
     directed |-> TRUE]

WeightedTrees ==
    UNION {{WeightedTreeOf(n, par, w) : par \in ParentMaps(n), w \in [1..(n - 1) -> Weights]} :
             n \in 2..MaxNodes}

\* tree.add_edge(u, v, weight=w): a new edge, or a new weight on the edge
add_weighted_edge(G, u, v, w) ==
    [G EXCEPT !.nodes = @ \cup {u, v},
              !.edges = @ \cup {<<u, v>>},
              !.weight = (<<u, v>> :> w) @@ @]

\* tree.remove_node(n) on a tree with edge weights
remove_weighted_node(G, n) ==
    LET kept == {e \in G.edges : e[1] # n /\ e[2] # n}
    IN  [G EXCEPT !.nodes = @ \ {n},
                  !.edges = kept,
                  !.weight = [e \in kept |-> G.weight[e]]]

RECURSIVE _collapse_unifurcations(_, _, _)
\* lines 289-299: the tree after the call on node, whose parent is parent
_collapse_unifurcations(G, node, parent) ==
    LET succs == successors(G, node)
    IN  IF Cardinality(succs) = 1
        THEN LET child == CHOOSE c \in succs : TRUE
                 t == G.weight[<<parent, node>>]
                 t_ == G.weight[<<node, child>>]
                 joined == add_weighted_edge(G, parent, child, t + t_)
             IN  remove_weighted_node(_collapse_unifurcations(joined, child, parent), node)
        ELSE LET RECURSIVE Below(_, _)
                 Below(S, H) ==
                     IF S = {} THEN H
                     ELSE LET i == CHOOSE x \in S : TRUE
                          IN  Below(S \ {i}, _collapse_unifurcations(H, i, node))
             IN  Below(succs, G)

\* lines 301-302: "not source" holds of None and of the node 0
traversal_source ==
    IF unif_source = <<>> \/ unif_source[1] = 0
    THEN CHOOSE n \in unif_tree.nodes : in_degree(unif_tree, n) = 0
    ELSE unif_source[1]

\* lines 307-313 with "len(succs) >= 1" as the test of line 308: a child is
\* folded into the source also when the source has further children
fold_first_child(G, source) ==
    LET succs == successors(G, source)
    IN  IF Cardinality(succs) >= 1
        THEN LET child == CHOOSE c \in succs : TRUE
                 t == G.weight[<<source, child>>]
                 RECURSIVE Joined(_, _)
                 Joined(S, H) ==
                     IF S = {} THEN H
                     ELSE LET i == CHOOSE x \in S : TRUE
                          IN  Joined(S \ {i},
                                     add_weighted_edge(H, source, i, t + G.weight[<<child, i>>]))
             IN  remove_weighted_node(Joined(successors(G, child), G), child)
        ELSE G

\* lines 307-313: the single child of the source is folded into the source
fold_single_child(G, source) ==
    LET succs == successors(G, source)
    IN  IF Cardinality(succs) = 1
        THEN LET child == CHOOSE c \in succs : TRUE
                 t == G.weight[<<source, child>>]
                 RECURSIVE Joined(_, _)
                 Joined(S, H) ==
                     IF S = {} THEN H
                     ELSE LET i == CHOOSE x \in S : TRUE
                          IN  Joined(S \ {i},
                                     add_weighted_edge(H, source, i, t + G.weight[<<child, i>>]))
             IN  remove_weighted_node(Joined(successors(G, child), G), child)
        ELSE G

\* The successors of the source the loop of line 304 has not been through.
unvisited == successors(unif_tree, traversal_source) \ unif_visited

\* The loop of line 304 runs over tree.successors(source), a live iterator
\* of the adjacency dictionary of source, while its body adds and removes
\* successors of source: once the keys have changed the iteration may go on,
\* may leave entries out or may raise RuntimeError.
keys_changed ==
    successors(unif_tree, traversal_source) # successors(unif_pre, traversal_source)

InitUnifurcations ==
    /\ SolveIdle
    /\ AppendIdle
    /\ CollapseIdle
    /\ UtilitiesIdle
    /\ unif_tree \in WeightedTrees
    /\ unif_source \in {<<>>} \cup {<<n>> : n \in unif_tree.nodes}
    /\ unif_visited = {}
    /\ unif_pc = "loop"
    /\ unif_pre = unif_tree

\* lines 304-305: one pass of the loop
UnifVisit ==
    /\ unif_pc = "loop"
    /\ \E node \in unvisited :
          /\ unif_tree' = _collapse_unifurcations(unif_tree, node, traversal_source)
          /\ unif_visited' = unif_visited \cup {node}
    /\ UNCHANGED <<solveVars, appendVars, collapseVars, utilityVars, unif_source, unif_pc, unif_pre>>

\* lines 304, 307-313: the iterator is exhausted, the single child of the source
\* is folded, the call returns
UnifFold ==
    /\ unif_pc = "loop"
    /\ unvisited = {}
    /\ unif_tree' = fold_single_child(unif_tree, traversal_source)
    /\ unif_pc' = "returned"
    /\ UNCHANGED <<solveVars, appendVars, collapseVars, utilityVars, unif_source, unif_visited, unif_pre>>

\* lines 304, 307-313: the iterator, its dictionary changed, ends before it has
\* been through every successor
UnifSkips ==
    /\ unif_pc = "loop"
    /\ keys_changed
    /\ unvisited # {}
    /\ unif_tree' = fold_single_child(unif_tree, traversal_source)
    /\ unif_pc' = "returned"
    /\ UNCHANGED <<solveVars, appendVars, collapseVars, utilityVars, unif_source, unif_visited, unif_pre>>

\* line 304: the iterator, its dictionary changed, raises RuntimeError
UnifRaises ==
    /\ unif_pc = "loop"
    /\ keys_changed
    /\ unif_pc' = "raised"
    /\ UNCHANGED <<solveVars, appendVars, collapseVars, utilityVars, unif_tree, unif_source,
                   unif_visited, unif_pre>>

NextUnifurcations ==
    \/ UnifVisit
    \/ UnifFold
    \/ UnifSkips
    \/ UnifRaises

SpecUnifurcations == InitUnifurcations /\ [][NextUnifurcations]_vars

\* Either of the two collapsing passes, on a tree of its own.
InitPasses == InitCollapse \/ InitUnifurcations

NextPasses == NextCollapse \/ NextUnifurcations

SpecPasses == InitPasses /\ [][NextPasses]_vars

(***************************************************************************)
(* Properties of collapse_unifurcations                                    *)
(***************************************************************************)
\* The call of collapse_unifurcations is over.
UnifOver == unif_pc \in {"returned", "raised"}

\* The nodes with exactly one child.
Unifurcations(G) == {n \in G.nodes : out_degree(G, n) = 1}

\* C17: after collapse_unifurcations(tree, source) no node in the subtree
\* rooted at source has exactly one child; with the source defaulting to the
\* root, no node of the whole tree has exactly one child, the root included,
\* whose single child is folded into it.
C17_NoUnifurcationLeft ==
    UnifOver =>
        /\ Unifurcations(unif_tree) \cap Reachable(unif_tree, traversal_source) = {}
        /\ unif_source = <<>> => Unifurcations(unif_tree) = {}

RECURSIVE WeightedDepth(_, _)
\* The sum of the edge weights on the path from the root to node n.
WeightedDepth(G, n) ==
    IF in_degree(G, n) = 0 THEN 0
    ELSE LET p == CHOOSE q \in G.nodes : <<q, n>> \in G.edges
         IN  G.weight[<<p, n>>] + WeightedDepth(G, p)

\* C18: path-length preservation: for every leaf of the input tree, the sum
\* of the edge weights on the path from the root to that leaf is the same
\* before and after collapse_unifurcations, also along chains of several
\* unifurcations, each new edge carrying the sum of the weights it replaces.
C18_PathLengthPreserved ==
    unif_pc = "returned" =>
        \A l \in Tips(unif_pre) :
            /\ l \in unif_tree.nodes
            /\ WeightedDepth(unif_tree, l) = WeightedDepth(unif_pre, l)

\* No internal non-root node of the tree given to collapse_tree has the
\* vector of its parent.
NothingToCollapse ==
    \A e \in collapse_pre.tree.edges :
        out_degree(collapse_pre.tree, e[2]) > 0 =>
            node_to_characters[e[2]] # node_to_characters[e[1]]

\* C19: both collapsing passes are no-ops, and raise nothing, when nothing
\* qualifies: if no internal non-root node has a vector identical to its
\* parent's, collapse_tree leaves node set and edge set unchanged; if no node
\* has exactly one child, collapse_unifurcations leaves node set, edge set
\* and edge weights unchanged.
C19_NoOpWhenNothingQualifies ==
    /\ (collapse_pc = "returned" /\ NothingToCollapse) =>
          /\ collapse_T.nodes = collapse_pre.tree.nodes
          /\ collapse_T.edges = collapse_pre.tree.edges
    /\ (unif_pc # "idle" /\ Unifurcations(unif_pre) = {}) =>
          /\ unif_pc # "raised"
          /\ unif_tree = unif_pre

\* C19 witness: collapse_unifurcations has returned from a tree of four or
\* more nodes none of which has exactly one child.
C19_Witness ==
    /\ unif_pc = "returned"
    /\ Unifurcations(unif_pre) = {}
    /\ Cardinality(unif_pre.nodes) >= 4
    /\ unif_tree = unif_pre

(***************************************************************************)
(* The lifecycle of one solve invocation                                   *)
(***************************************************************************)
\* C20: one solve invocation goes setup (matrix ready) -> merge steps while
\* more than two active nodes remain -> final join -> optional rooting ->
\* populate_tree: populate_tree is called exactly once and last, and no
\* cherry selection or matrix update happens after the final join.
C20_Lifecycle ==
    /\ [](/\ pc = "loop" => (dissimilarity_map # <<>> /\ steps.populate = 0)
          /\ pc \in {"relabel", "root", "populate"} => steps.populate = 0
          /\ pc = "done" => (steps.populate = 1 /\ handle_tree = <<tree>>)
          /\ steps.cherry = steps.update)
    /\ [][/\ pc' = "loop" => pc \in {"idle", "loop"}
          /\ pc' = "relabel" => (pc = "loop" /\ N = 2)
          /\ pc' = "root" => pc = "relabel"
          /\ pc' = "populate" => pc \in {"relabel", "root"}
          /\ pc' = "done" => pc = "populate"
          /\ pc # "done"
          /\ (pc = "loop" /\ pc' = "loop") =>
                (N > 2 /\ steps'.cherry = steps.cherry + 1 /\ steps'.update = steps.update + 1)
          /\ pc \in {"relabel", "root", "populate"} =>
                (steps'.cherry = steps.cherry /\ steps'.update = steps.update)
          /\ steps'.populate # steps.populate =>
                (pc = "populate" /\ pc' = "done" /\ steps'.populate = 1)
          /\ root_call' # root_call => (pc = "root" \/ pc' = "idle")]_vars

\* C20 witness: a solve with a merge step and a rooting step has called
\* populate_tree and is over.
C20_Witness ==
    /\ pc = "done"
    /\ steps.cherry >= 1
    /\ root_call # <<>>
    /\ steps.populate = 1

(***************************************************************************)
(* CassiopeiaTree.get_mean_depth_of_tree and get_max_depth_of_tree         *)
(***************************************************************************)
\* The time of a node of a tree of unit branch lengths: the number of edges
\* from the root to it.
get_time(T, n) == Dist(T, collapse_root(T), n)

RECURSIVE SumOfTimes(_, _)
SumOfTimes(T, S) ==
    IF S = {} THEN 0
    ELSE LET l == CHOOSE x \in S : TRUE
         IN  get_time(T, l) + SumOfTimes(T, S \ {l})

\* The mean of the times of the leaves, kept as the sum and the number of
\* leaves it is divided by.
get_mean_depth_of_tree(T) == [total |-> SumOfTimes(T, Tips(T)), leaves |-> Cardinality(Tips(T))]

\* The largest time of a leaf.
get_max_depth_of_tree(T) ==
    CHOOSE d \in 0..Cardinality(T.nodes) :
        /\ \E l \in Tips(T) : get_time(T, l) = d
        /\ \A l \in Tips(T) : get_time(T, l) <= d

InitDepth ==
    /\ SolveIdle
    /\ AppendIdle
    /\ CollapseIdle
    /\ UnifurcationsIdle
    /\ WalkIdle
    /\ EteIdle
    /\ depth_tree \in RootedTrees \cup {test_network}
    /\ mean_depth = <<>>
    /\ max_depth = <<>>

\* tree.get_mean_depth_of_tree()
GetMeanDepth ==
    /\ mean_depth = <<>>
    /\ mean_depth' = <<get_mean_depth_of_tree(depth_tree)>>
    /\ UNCHANGED <<solveVars, appendVars, collapseVars, unifVars, walkVars, eteVars, depth_tree, max_depth>>

\* tree.get_max_depth_of_tree()
GetMaxDepth ==
    /\ max_depth = <<>>
    /\ max_depth' = <<get_max_depth_of_tree(depth_tree)>>
    /\ UNCHANGED <<solveVars, appendVars, collapseVars, unifVars, walkVars, eteVars, depth_tree, mean_depth>>

NextDepth ==
    \/ GetMeanDepth
    \/ GetMaxDepth

SpecDepth == InitDepth /\ [][NextDepth]_vars

\* C21: on the reference topology of the test fixture (node0 .. node18, unit
\* branch lengths) the mean root-to-leaf depth is 4.7, the depths of the 10
\* leaves summing to 47, and the maximum root-to-leaf depth is 8.
C21_ReferenceDepths ==
    depth_tree = test_network =>
        /\ mean_depth # <<>> =>
              /\ mean_depth[1].total = 47
              /\ mean_depth[1].leaves = 10
              /\ 10 * mean_depth[1].total = 47 * mean_depth[1].leaves
        /\ max_depth # <<>> => max_depth[1] = 8

\* C21 witness: both depths of the reference topology have been computed.
C21_Witness ==
    /\ depth_tree = test_network
    /\ mean_depth # <<>>
    /\ max_depth # <<>>

(***************************************************************************)
(* What collapse_tree removes and how it joins what is left                *)
(***************************************************************************)
\* The parents of n in T.
Parents(T, n) == {e[1] : e \in {f \in T.edges : f[2] = n}}

\* The parent of a node of a tree that is not its root.
ParentIn(T, n) == CHOOSE p \in T.nodes : <<p, n>> \in T.edges

RECURSIVE NearestSurvivor(_, _, _)
\* The nearest proper ancestor of n in T that is in kept (the root of T is).
NearestSurvivor(T, kept, n) ==
    LET p == ParentIn(T, n)
    IN  IF p \in kept THEN p ELSE NearestSurvivor(T, kept, p)

\* The internal non-root nodes of the tree given whose vector is the vector
\* of their parent.
IdenticalToParent ==
    {n \in collapse_pre.tree.nodes :
        /\ in_degree(collapse_pre.tree, n) > 0
        /\ out_degree(collapse_pre.tree, n) > 0
        /\ node_to_characters[n] = node_to_characters[ParentIn(collapse_pre.tree, n)]}

\* C22: collapse_tree removes exactly the internal non-root nodes whose
\* character vector equals the vector of their parent in the tree given, and
\* afterwards every surviving non-root node has exactly one parent, its
\* nearest surviving proper ancestor in the tree given.
C22_RemovedAndRejoined ==
    collapse_pc = "returned" =>
        /\ collapse_T.nodes = collapse_pre.tree.nodes \ IdenticalToParent
        /\ \A n \in collapse_T.nodes :
              IF n \in Roots(collapse_pre.tree)
              THEN Parents(collapse_T, n) = {}
              ELSE Parents(collapse_T, n) =
                       {NearestSurvivor(collapse_pre.tree, collapse_T.nodes, n)}

\* C22 witness: collapse_tree has returned a tree in which a node hangs from
\* an ancestor two removed nodes above it.
C22_Witness ==
    /\ collapse_pc = "returned"
    /\ \E n \in collapse_T.nodes \ Roots(collapse_pre.tree) :
          /\ ParentIn(collapse_pre.tree, n) \notin collapse_T.nodes
          /\ ParentIn(collapse_pre.tree, ParentIn(collapse_pre.tree, n)) \notin collapse_T.nodes

(***************************************************************************)
(* annotate_ancestral_characters, one call and one return at a time        *)
(***************************************************************************)
\* A call that has not yet made the test of line 46.
Called(node) == [node |-> node, at |-> "test", pending |-> {}, vecs |-> <<>>]

\* The stack after the innermost call has returned: the caller is at line 51
\* and appends the vector of the child it had called.
Returned(ntc) ==
    LET depth == Len(walk_stack)
        child == walk_stack[depth].node
    IN  IF depth = 1 THEN <<>>
        ELSE [SubSeq(walk_stack, 1, depth - 1) EXCEPT
                 ![depth - 1].vecs = Append(@, ntc[child])]

InitWalk ==
    /\ SolveIdle
    /\ AppendIdle
    /\ CollapseIdle
    /\ UnifurcationsIdle
    /\ DepthIdle
    /\ EteIdle
    /\ walk_T \in RootedTrees
    /\ walk_missing = -1
    /\ walk_characters \in [collapse_leaves(walk_T) -> {Vector(-1), Vector(1), Vector(2)}]
    /\ walk_stack = <<Called(collapse_root(walk_T))>>
    /\ walk_calls = [n \in walk_T.nodes |-> IF n = collapse_root(walk_T) THEN 1 ELSE 0]
    /\ walk_assigned = [n \in walk_T.nodes |-> 0]

\* lines 46-47: the node has no child, the call returns
WalkLeaf ==
    /\ walk_stack # <<>>
    /\ LET top == walk_stack[Len(walk_stack)]
       IN  /\ top.at = "test"
           /\ out_degree(walk_T, top.node) = 0
    /\ walk_stack' = Returned(walk_characters)
    /\ UNCHANGED <<solveVars, appendVars, collapseVars, unifVars, depthVars, eteVars,
                   walk_T, walk_missing, walk_characters, walk_calls, walk_assigned>>

\* lines 46, 48-49: the node has children, the loop over them starts
WalkEnter ==
    /\ walk_stack # <<>>
    /\ LET depth == Len(walk_stack)
           top == walk_stack[depth]
       IN  /\ top.at = "test"
           /\ out_degree(walk_T, top.node) # 0
           /\ walk_stack' = [walk_stack EXCEPT
                                ![depth].at = "loop",
                                ![depth].pending = successors(walk_T, top.node)]
    /\ UNCHANGED <<solveVars, appendVars, collapseVars, unifVars, depthVars, eteVars,
                   walk_T, walk_missing, walk_characters, walk_calls, walk_assigned>>

\* lines 49-50: the recursive call on the next child
WalkRecurse ==
    /\ walk_stack # <<>>
    /\ LET depth == Len(walk_stack)
           top == walk_stack[depth]
       IN  /\ top.at = "loop"
           /\ \E i \in top.pending :
                 /\ walk_stack' = Append([walk_stack EXCEPT ![depth].pending = @ \ {i}],
                                         Called(i))
                 /\ walk_calls' = [walk_calls EXCEPT ![i] = @ + 1]
    /\ UNCHANGED <<solveVars, appendVars, collapseVars, unifVars, depthVars, eteVars,
                   walk_T, walk_missing, walk_characters, walk_assigned>>

\* lines 52-54 as they would be if run after the first child instead of
\* after the loop
WalkAssignEarly ==
    /\ walk_stack # <<>>
    /\ LET top == walk_stack[Len(walk_stack)]
           lca_characters == get_lca_characters(Range(top.vecs), walk_missing)
           annotated == (top.node :> lca_characters) @@ walk_characters
       IN  /\ top.at = "loop"
           /\ top.vecs # <<>>
           /\ walk_characters' = annotated
           /\ walk_assigned' = [walk_assigned EXCEPT ![top.node] = @ + 1]
           /\ walk_stack' = Returned(annotated)
    /\ UNCHANGED <<solveVars, appendVars, collapseVars, unifVars, depthVars, eteVars,
                   walk_T, walk_missing, walk_calls>>

\* lines 52-54: the loop is over, the node is given the LCA of vecs, the call
\* returns
WalkAssign ==
    /\ walk_stack # <<>>
    /\ LET top == walk_stack[Len(walk_stack)]
           lca_characters == get_lca_characters(Range(top.vecs), walk_missing)
           annotated == (top.node :> lca_characters) @@ walk_characters
       IN  /\ top.at = "loop"
           /\ top.pending = {}
           /\ walk_characters' = annotated
           /\ walk_assigned' = [walk_assigned EXCEPT ![top.node] = @ + 1]
           /\ walk_stack' = Returned(annotated)
    /\ UNCHANGED <<solveVars, appendVars, collapseVars, unifVars, depthVars, eteVars,
                   walk_T, walk_missing, walk_calls>>

NextWalk ==
    \/ WalkLeaf
    \/ WalkEnter
    \/ WalkRecurse
    \/ WalkAssign

SpecWalk == InitWalk /\ [][NextWalk]_vars

\* The node whose call is the innermost one.
WalkTop == walk_stack[Len(walk_stack)].node

\* The vector of node n is resolved: a leaf has its row, an internal node has
\* been given its vector by line 53.
Resolved(n) ==
    /\ n \in DOMAIN walk_characters
    /\ out_degree(walk_T, n) # 0 => walk_assigned[n] = 1

\* The outermost call has returned with the annotation the recursive
\* definition gives.
WalkAgrees ==
    walk_stack = <<>> =>
        walk_characters =
            annotate_ancestral_characters(walk_T, collapse_root(walk_T),
                [l \in collapse_leaves(walk_T) |-> walk_characters[l]], walk_missing)

\* C23: ancestral reconstruction is post-order: a node is given its vector
\* only when the vectors of all its children are resolved, every internal
\* node is annotated exactly once (and no leaf ever), and no call is made
\* from a node of out-degree 0: the call on such a node returns at once.
C23_PostOrder ==
    /\ [][\A n \in walk_T.nodes :
             walk_assigned'[n] # walk_assigned[n] =>
                 /\ out_degree(walk_T, n) # 0
                 /\ \A i \in successors(walk_T, n) : Resolved(i)]_vars
    /\ [](\A n \in DOMAIN walk_assigned :
             /\ walk_assigned[n] <= 1
             /\ walk_calls[n] <= 1
             /\ walk_stack = <<>> =>
                   /\ walk_calls[n] = 1
                   /\ walk_assigned[n] = IF out_degree(walk_T, n) = 0 THEN 0 ELSE 1)
    /\ [](\A k \in 1..Len(walk_stack) :
             /\ out_degree(walk_T, walk_stack[k].node) = 0 => k = Len(walk_stack)
             /\ k > 1 => walk_stack[k].node \in successors(walk_T, walk_stack[k - 1].node))
    /\ [][(walk_stack # <<>> /\ out_degree(walk_T, WalkTop) = 0) =>
             /\ Len(walk_stack') = Len(walk_stack) - 1
             /\ walk_calls' = walk_calls]_vars

\* C23 witness: the outermost call has returned on a tree in which an
\* internal node has an internal child and a leaf child.
C23_Witness ==
    /\ walk_stack = <<>>
    /\ walk_T # EmptyGraph
    /\ \E e \in walk_T.edges :
          /\ out_degree(walk_T, e[2]) # 0
          /\ \E l \in successors(walk_T, e[1]) : out_degree(walk_T, l) = 0

(***************************************************************************)
(* Irreversibility of the reconstructed states                             *)
(***************************************************************************)
\* Internal node n carries state s at the site and every leaf below n
\* carries s or the missing symbol there.
InheritedBelow(n, site) ==
    \A l \in LeavesBelow(collapse_T, n) :
        node_to_characters[l][site] \in {node_to_characters[n][site], missing_char[1]}

\* C24: after ancestral reconstruction, whenever an internal node carries a
\* non-ancestral, non-missing state s at a site, every leaf in that node's
\* subtree carries s or the missing symbol at that site.
C24_DerivedOnlyInherited ==
    Annotated =>
        \A n \in InternalNodes(collapse_T) : \A site \in DOMAIN node_to_characters[n] :
            node_to_characters[n][site] \notin {0, missing_char[1]} => InheritedBelow(n, site)

\* C24 as it holds: after ancestral reconstruction with a missing symbol
\* that is not the ancestral symbol 0, whenever an internal node carries a
\* non-ancestral, non-missing state s at a site, every leaf in that node's
\* subtree carries s or the missing symbol at that site.
C24_DerivedOnlyInheritedAmended ==
    (Annotated /\ missing_char # <<0>>) =>
        \A n \in InternalNodes(collapse_T) : \A site \in DOMAIN node_to_characters[n] :
            node_to_characters[n][site] \notin {0, missing_char[1]} => InheritedBelow(n, site)

\* C24 witness: reconstruction with the missing symbol -1 has given a node
\* two edges or more above some leaf a mutated state, which a leaf below it
\* carries and in whose place another leaf below it has the missing symbol.
C24_Witness ==
    /\ Annotated
    /\ missing_char = <<-1>>
    /\ \E n \in InternalNodes(collapse_T) :
          /\ node_to_characters[n][1] \notin {0, -1}
          /\ \E l \in LeavesBelow(collapse_T, n) : node_to_characters[l][1] = -1
          /\ \E l \in LeavesBelow(collapse_T, n) :
                /\ node_to_characters[l][1] = node_to_characters[n][1]
                /\ l \notin successors(collapse_T, n)

(***************************************************************************)
(* Termination of solve                                                    *)
(***************************************************************************)
\* Once solve has been called its statements are run one after the other:
\* nothing waits, so a step of the call that can be taken is taken.
SolveRuns == Merge \/ FinalJoin \/ Relabel \/ RootTree \/ RootTreeRaises \/ Populate

SpecLive == Spec /\ WF_vars(SolveRuns)

\* populate_tree has been called after N - 2 cherry selections and N - 2
\* matrix updates, N being the number of rows of the matrix solve started on.
PopulatedAfterMerges ==
    /\ pc = "done"
    /\ steps.populate = 1
    /\ steps.cherry = Len(identifier_to_sample) - 2
    /\ steps.update = Len(identifier_to_sample) - 2

ImplicitRootWanted == Len(pre) > 0 /\ add_root /\ AtCall.root_sample_name = <<>>

\* The handle's matrix is the matrix of the call with one more sample,
\* "root", whose vector is all zeros with one entry per character, and the
\* handle's root sample name is "root".
RootRowAdded ==
    /\ character_matrix.index = Append(AtCall.character_matrix.index, "root")
    /\ character_matrix.values =
           Append(AtCall.character_matrix.values,
                  [k \in 1..Len(AtCall.character_matrix.values[1]) |-> 0])
    /\ root_sample_name = <<"root">>

\* The handle's map is a map over the matrix with the root row, whatever map
\* the handle had, and it is the matrix solve works on.
MapRecomputed ==
    /\ dissimilarity_map = <<compute_dissimilarity_map(character_matrix)>>
    /\ \E p \in DOMAIN dissimilarity_map[1].index : dissimilarity_map[1].index[p] = "root"
    /\ pc # "raised"
    /\ pc = "loop" /\ steps.cherry = 0 => working_map = dissimilarity_map[1]
    /\ pc \notin {"idle", "raised"} => identifier_to_sample = dissimilarity_map[1].index

\* C26: when add_root is set and the handle has no root sample name, setup
\* adds to the character matrix a sample named "root" whose state vector is
\* all zeros with one entry per character, sets the handle's root sample
\* name to "root", and recomputes the dissimilarity map (even if one was
\* precomputed) so that the matrix solved over contains the root row; the
\* dissimilarity map is computed at most once per solve.
C26_ImplicitRoot ==
    /\ ImplicitRootWanted => (RootRowAdded /\ MapRecomputed /\ steps.compute = 1)
    /\ steps.compute <= 1

\* C26 as it holds: the map is recomputed when the solver has a
\* dissimilarity function; without one setup raises DistanceSolverError
\* after it has added the root row and set the root sample name, and
\* computes no map.
C26_ImplicitRootAmended ==
    /\ ImplicitRootWanted =>
          /\ RootRowAdded
          /\ dissimilarity_function => (MapRecomputed /\ steps.compute = 1)
          /\ ~dissimilarity_function =>
                /\ pc \in {"raised", "idle"}
                /\ outcomes[Len(pre)] = "DistanceSolverError"
                /\ dissimilarity_map = AtCall.dissimilarity_map
                /\ steps.compute = 0
    /\ steps.compute <= 1

\* C26 witness: solve is in its merge loop over a matrix with the root row,
\* on a handle that had a precomputed map without it.
C26_Witness ==
    /\ ImplicitRootWanted
    /\ AtCall.dissimilarity_map # <<>>
    /\ pc = "loop"
    /\ steps.compute = 1
    /\ "root" \in Range(working_map.index)

(***************************************************************************)
(* Names in the tree solve builds                                          *)
(***************************************************************************)
\* C27: every name solve gives to a synthesized internal node (the decimal
\* string of the current node count) is different from every input sample
\* label and from every earlier synthesized name, for every set of sample
\* labels including labels that are numeric strings: at every merge the name
\* is not yet a node of the tree, and the merge adds one node.
C27_FreshNames ==
    /\ [](pc = "loop" /\ N > 2 => new_node_name(tree) \notin tree.nodes)
    /\ [][steps'.cherry = steps.cherry + 1 =>
             tree'.nodes \ tree.nodes = {new_node_name(tree)}]_vars

\* C28: the relabelling at the end of solve does not change which sample
\* label sits at which leaf: every sample label is a node of the relabelled
\* tree and has the neighbours there that the matrix row of that label had
\* in the merge tree, for every set of sample labels including the strings
\* "0" .. "N-1" in an order different from their matrix position.
C28_RelabelKeepsLeaves ==
    [][pc = "relabel" /\ pc' # "relabel" =>
          \A p \in DOMAIN identifier_to_sample :
              /\ identifier_to_sample[p] \in tree'.nodes
              /\ successors(tree', identifier_to_sample[p]) =
                     successors(tree, identifier_to_sample[p])]_vars

(***************************************************************************)
(* What collapse_unifurcations removes                                     *)
(***************************************************************************)
\* C29: collapse_unifurcations removes only nodes that have exactly one
\* child, and the set of leaves of the tree is the same before and after
\* the call, also when the single child of the traversal source is a leaf
\* or the source heads a chain of unifurcations ending in a leaf.
C29_OnlyUnifurcationsRemoved ==
    unif_pc = "returned" =>
        /\ unif_pre.nodes \ unif_tree.nodes \subseteq Unifurcations(unif_pre)
        /\ Tips(unif_tree) = Tips(unif_pre)

(***************************************************************************)
(* solver_utilities.collapse_unifurcations (on an ete3 tree)               *)
(***************************************************************************)
\* line 163
collapse_fn(T, x) == Cardinality(successors(T, x)) = 1

\* TreeNode.delete(prevent_nondicotomic=False): a node that has a parent
\* hands its children to the parent and is taken out of the parent's
\* children; a node without a parent (the root, or a node deleted before)
\* stays as it is.
delete_node(T, n) ==
    IF n \notin T.nodes \/ Parents(T, n) = {}
    THEN T
    ELSE LET parent == ParentIn(T, n)
         IN  [T EXCEPT !.nodes = @ \ {n},
                       !.edges = {e \in @ : e[1] # n /\ e[2] # n}
                                     \cup {<<parent, ch>> : ch \in successors(T, n)}]

\* line 169, n.delete(): TreeNode.delete with prevent_nondicotomic=True
\* deletes the parent as well if the parent is left with fewer than two
\* children.
delete(T, n) ==
    IF n \notin T.nodes \/ Parents(T, n) = {}
    THEN T
    ELSE LET parent == ParentIn(T, n)
             deleted == delete_node(T, n)
         IN  IF Cardinality(successors(deleted, parent)) < 2
             THEN delete_node(deleted, parent)
             ELSE deleted

InitEte ==
    /\ SolveIdle
    /\ AppendIdle
    /\ CollapseIdle
    /\ UnifurcationsIdle
    /\ DepthIdle
    /\ WalkIdle
    /\ ete_tree \in RootedTrees
    /\ collapsed_tree = EmptyGraph
    /\ ete_to_collapse = {}
    /\ ete_pc = "call"

\* lines 165-166: the tree is copied and the nodes of the copy that have one
\* child are listed
EteCopy ==
    /\ ete_pc = "call"
    /\ collapsed_tree' = ete_tree
    /\ ete_to_collapse' = {n \in ete_tree.nodes : collapse_fn(ete_tree, n)}
    /\ ete_pc' = "loop"
    /\ UNCHANGED <<solveVars, appendVars, collapseVars, unifVars, depthVars, walkVars, ete_tree>>

\* lines 168-169: the next node of the list is deleted; traverse() lists the
\* nodes level by level, so a node comes before every node farther from the
\* root
EteDelete ==
    /\ ete_pc = "loop"
    /\ \E n \in ete_to_collapse :
          /\ \A m \in ete_to_collapse :
                Dist(ete_tree, collapse_root(ete_tree), n) <=
                    Dist(ete_tree, collapse_root(ete_tree), m)
          /\ collapsed_tree' = delete(collapsed_tree, n)
          /\ ete_to_collapse' = ete_to_collapse \ {n}
    /\ UNCHANGED <<solveVars, appendVars, collapseVars, unifVars, depthVars, walkVars,
                   ete_tree, ete_pc>>

\* lines 168, 171: the list is exhausted, the copy is returned
EteReturn ==
    /\ ete_pc = "loop"
    /\ ete_to_collapse = {}
    /\ ete_pc' = "returned"
    /\ UNCHANGED <<solveVars, appendVars, collapseVars, unifVars, depthVars, walkVars,
                   ete_tree, collapsed_tree, ete_to_collapse>>

NextEte ==
    \/ EteCopy
    \/ EteDelete
    \/ EteReturn

SpecEte == InitEte /\ [][NextEte]_vars

\* C30: solver_utilities.collapse_unifurcations returns a collapsed copy in
\* which no node, the root included, has exactly one child, every removed
\* node's child being connected to the removed node's parent (the nearest
\* ancestor that is kept), and it leaves the tree passed in unmodified.
C30_CollapsedCopy ==
    /\ [](ete_pc = "returned" =>
            /\ Unifurcations(collapsed_tree) = {}
            /\ collapsed_tree.nodes = ete_tree.nodes \ Unifurcations(ete_tree)
            /\ \A n \in collapsed_tree.nodes :
                  IF n \in Roots(ete_tree)
                  THEN Parents(collapsed_tree, n) = {}
                  ELSE Parents(collapsed_tree, n) =
                           {NearestSurvivor(ete_tree, collapsed_tree.nodes, n)})
    /\ [][ete_tree' = ete_tree]_vars

====
